---- MODULE Spec2Model ----
(***************************************************************************)
(* A model of molecules.py: four chains (strings) are laid out as an       *)
(* octothorpe; the program searches every role assignment of the chains    *)
(* and every configuration of six indices, and reports the largest inner   *)
(* area per chain set.                                                     *)
(*                                                                         *)
(* A Python str is a sequence of one-character strings, a Python tuple or  *)
(* list is a sequence.  Python indices are 0-based: s[i] is At(s, i).      *)
(***************************************************************************)
EXTENDS Integers, Sequences, FiniteSets, TLC

VARIABLES
    chain_sets,          \* process_chain_sets: the argument
    results,             \* process_chain_sets: the list being built
    i,                   \* process_chain_sets: position of the for loop (1-based)
    chains,              \* generate_molecules: the argument
    chain_combinations,  \* generate_molecules: the role-assigned orderings
    k,                   \* generate_molecules: position of the for-combo loop (1-based)
    all_configs,         \* generate_molecules: the list being built
    configs,             \* the list the last generate_valid_configs call returned
    subscripts,          \* the <<len(chain), index>> subscripts that call evaluated
    molecules,           \* process_chain_sets: the list generate_molecules returned
    text,                \* process_input_file: the contents of the file
    pc                   \* where the program is

vars == <<chain_sets, results, i, chains, chain_combinations, k, all_configs,
          configs, subscripts, molecules, text, pc>>

---------------------------------------------------------------------------
(* Python built-ins *)

\* range(lo, hi) as a list
range(lo, hi) == [n \in 1..(IF hi > lo THEN hi - lo ELSE 0) |-> lo + n - 1]

\* [x for xs in lists for x in xs]: the lists of a for clause, one after another
Concat(lists) ==
    LET count == Cardinality(DOMAIN lists)
        f[n \in 0..count] == IF n = 0 THEN <<>> ELSE f[n - 1] \o lists[n]
    IN  f[count]

\* s[i] does not raise IndexError
InRange(s, n) == -Len(s) <= n /\ n < Len(s)

\* s[i], a negative i counting from the end
At(s, n) == IF n >= 0 THEN s[n + 1] ELSE s[Len(s) + n + 1]

\* max(a, b)
max2(a, b) == IF a >= b THEN a ELSE b

\* the largest of a set of keys
LargestOf(keys) == CHOOSE v \in keys : \A u \in keys : u <= v

\* the elements of a list
Elems(xs) == {xs[n] : n \in 1..Len(xs)}

---------------------------------------------------------------------------
(* calc_config_area *)
calc_config_area(config) ==
    LET Bs == config[2]
        Be == config[3]
        Cs == config[4]
        Ce == config[5]
        width == Cs - Ce
        height == Be - Bs
    IN  (width - 1) * (height - 1)

---------------------------------------------------------------------------
(* generate_valid_configs *)

\* the nested for clauses with one bound changed:
\* Ae up to len(A) - 1 + aeEnd, Be from Bs + 2 - beFrom, Ce from 1 when not
\* ceGuard, Ce up to Cs - 3 + ceEnd, Ds from 1 when not dsLift
ChangedCandidates(cs, aeEnd, beFrom, ceGuard, ceEnd, dsLift) ==
    LET A == cs[1]
        B == cs[2]
        C == cs[3]
        D == cs[4]
    IN  Concat([a \in DOMAIN range(3, Len(A) - 1 + aeEnd) |->
            LET Ae == range(3, Len(A) - 1 + aeEnd)[a] IN
        Concat([b \in DOMAIN range(1, Len(B) - 3) |->
            LET Bs == range(1, Len(B) - 3)[b] IN
        Concat([c \in DOMAIN range(Bs + 2 - beFrom, Len(B) - 1) |->
            LET Be == range(Bs + 2 - beFrom, Len(B) - 1)[c] IN
        Concat([d \in DOMAIN range(3, Len(C) - 1) |->
            LET Cs == range(3, Len(C) - 1)[d] IN
        Concat([e \in DOMAIN range(IF ceGuard THEN max2(1, Cs - Ae + 1) ELSE 1, Cs - 2 + ceEnd) |->
            LET Ce == range(IF ceGuard THEN max2(1, Cs - Ae + 1) ELSE 1, Cs - 2 + ceEnd)[e] IN
        [f \in DOMAIN range(1 + (IF dsLift THEN Be - Bs ELSE 0), Len(D) - 1) |->
            LET Ds == range(1 + (IF dsLift THEN Be - Bs ELSE 0), Len(D) - 1)[f] IN
            <<Ae, Bs, Be, Cs, Ce, Ds>>
        ]])])])])])

\* for Ae in range(3, len(A))
Candidates_AeToTheEnd(cs) == ChangedCandidates(cs, 1, 0, TRUE, 0, TRUE)
\* for Be in range(Bs + 1, len(B) - 1)
Candidates_BeNextToBs(cs) == ChangedCandidates(cs, 0, 1, TRUE, 0, TRUE)
\* for Ce in range(1, Cs - 2)
Candidates_CeFromOne(cs) == ChangedCandidates(cs, 0, 0, FALSE, 0, TRUE)
\* for Ce in range(max(1, Cs - Ae + 1), Cs - 1)
Candidates_CeNextToCs(cs) == ChangedCandidates(cs, 0, 0, TRUE, 1, TRUE)
\* for Ds in range(1, len(D) - 1)
Candidates_DsFromOne(cs) == ChangedCandidates(cs, 0, 0, TRUE, 0, FALSE)

\* the nested for clauses: every candidate 6-tuple, in loop order
Candidates(cs) ==
    LET A == cs[1]
        B == cs[2]
        C == cs[3]
        D == cs[4]
    IN  Concat([a \in DOMAIN range(3, Len(A) - 1) |->
            LET Ae == range(3, Len(A) - 1)[a] IN
        Concat([b \in DOMAIN range(1, Len(B) - 3) |->
            LET Bs == range(1, Len(B) - 3)[b] IN
        Concat([c \in DOMAIN range(Bs + 2, Len(B) - 1) |->
            LET Be == range(Bs + 2, Len(B) - 1)[c] IN
        Concat([d \in DOMAIN range(3, Len(C) - 1) |->
            LET Cs == range(3, Len(C) - 1)[d] IN
        Concat([e \in DOMAIN range(max2(1, Cs - Ae + 1), Cs - 2) |->
            LET Ce == range(max2(1, Cs - Ae + 1), Cs - 2)[e] IN
        [f \in DOMAIN range(1 + (Be - Bs), Len(D) - 1) |->
            LET Ds == range(1 + (Be - Bs), Len(D) - 1)[f] IN
            <<Ae, Bs, Be, Cs, Ce, Ds>>
        ]])])])])])

\* the eight subscripts of the if clause, in evaluation order:
\* <<role, index>>, the roles A, B, C, D being 1..4
Subscripts(config) ==
    LET Ae == config[1]
        Bs == config[2]
        Be == config[3]
        Cs == config[4]
        Ce == config[5]
        Ds == config[6]
    IN  << <<1, Ae>>, <<2, Bs>>,
           <<2, Be>>, <<3, Cs>>,
           <<3, Ce>>, <<4, Ds>>,
           <<4, Ds - (Be - Bs)>>, <<1, Ae - (Cs - Ce)>> >>

\* chains[role][index] does not raise, and its value
SubOK(cs, s) == InRange(cs[s[1]], s[2])
Sub(cs, s) == At(cs[s[1]], s[2])

\* the if clause on one candidate, subs being its subscripts: "and" evaluates
\* its n-th comparison only when the ones before it were true, and a comparison
\* evaluates its right subscript only when the left one did not raise.
\* reads: how many of the subscripts were evaluated; result: how it ended
Intersections(cs, subs) ==
    LET walk[n \in 1..5] ==
            IF n = 5 THEN [reads |-> 8, result |-> "True"]
            ELSE IF ~SubOK(cs, subs[2 * n - 1])
                 THEN [reads |-> 2 * n - 1, result |-> "IndexError"]
            ELSE IF ~SubOK(cs, subs[2 * n])
                 THEN [reads |-> 2 * n, result |-> "IndexError"]
            ELSE IF Sub(cs, subs[2 * n - 1]) # Sub(cs, subs[2 * n])
                 THEN [reads |-> 2 * n, result |-> "False"]
            ELSE walk[n + 1]
    IN  walk[1]

\* the if clause applied to the candidates in turn, outcomes[n] being
\* Intersections of the n-th: whether it raises, the <<len, index>> subscripts
\* it evaluates until then, and the candidates it keeps
FilteredBy(cs, cands, outcomes) ==
    LET raising == {n \in 1..Len(cands) : outcomes[n].result = "IndexError"}
        reached == {n \in 1..Len(cands) : \A r \in raising : n <= r}
    IN  [raises |-> raising # {},
         subscripts |->
            UNION {{<<Len(cs[Subscripts(cands[n])[j][1]]), Subscripts(cands[n])[j][2]>> :
                        j \in 1..outcomes[n].reads} : n \in reached},
         configs |->
            SelectSeq(cands, LAMBDA config :
                Intersections(cs, Subscripts(config)).result = "True")]

Filtered(cs, cands) ==
    FilteredBy(cs, cands,
        [n \in 1..Len(cands) |-> Intersections(cs, Subscripts(cands[n]))])

\* one call of generate_valid_configs
generate_valid_configs_call(cs) == Filtered(cs, Candidates(cs))

\* the list the call returns
generate_valid_configs(cs) == generate_valid_configs_call(cs).configs

---------------------------------------------------------------------------
(* combinations: a Python list or tuple carries its type, which             *)
(* recursive_flatten tests                                                  *)
PyList(items) == [type |-> "list", items |-> items]
PyTuple(items) == [type |-> "tuple", items |-> items]

RECURSIVE recursive_combogen(_, _)
recursive_combogen(choices, acc) ==
    IF Len(choices) = 1
    THEN PyTuple(acc \o choices)
    ELSE PyList([n \in 1..Len(choices) |->
            recursive_combogen(
                SelectSeq(choices, LAMBDA item : item # choices[n]),
                Append(acc, choices[n]))])

\* flat += c, without the recursive call
recursive_flatten_one_level(a_list) ==
    LET flat[n \in 0..Len(a_list.items)] ==
            IF n = 0 THEN <<>>
            ELSE LET c == a_list.items[n]
                 IN  IF c.type = "list"
                     THEN flat[n - 1] \o c.items
                     ELSE Append(flat[n - 1], c)
    IN  flat[Len(a_list.items)]

RECURSIVE recursive_flatten(_)
recursive_flatten(a_list) ==
    LET flat[n \in 0..Len(a_list.items)] ==
            IF n = 0 THEN <<>>
            ELSE LET c == a_list.items[n]
                 IN  IF c.type = "list"
                     THEN flat[n - 1] \o recursive_flatten(c)
                     ELSE Append(flat[n - 1], c)
    IN  flat[Len(a_list.items)]

combinations(choices) == recursive_flatten(recursive_combogen(choices, <<>>))

---------------------------------------------------------------------------
(* generate_molecules *)

\* the number of roles: combinations(range(4))
Roles == 4

\* tuple(chains[i] for i in c) raises IndexError
reorder_raises(cs, c) == \E n \in 1..Len(c.items) : ~InRange(cs, c.items[n])

\* tuple(chains[i] for i in range(len(c)))
reorder_in_place(cs, c) == [n \in 1..Len(c.items) |-> At(cs, n - 1)]

\* tuple(chains[i] for i in c)
reorder(cs, c) == [n \in 1..Len(c.items) |-> At(cs, c.items[n])]

\* [(combo, config) for config in configs]
pair_with(combo, cfgs) == [n \in 1..Len(cfgs) |-> <<combo, cfgs[n]>>]

\* the list generate_molecules returns for 4 chains or more
configs_of(combo) == pair_with(combo, generate_valid_configs(combo))
generate_molecules(cs) ==
    LET c == combinations(range(0, Roles))
    IN  Concat([n \in 1..Len(c) |-> configs_of(reorder(cs, c[n]))])

---------------------------------------------------------------------------
(* process_input_file *)

Whitespace == {" ", "\n"}

\* text.find(c): the 0-based position of the first c, or -1
find(s, c) ==
    IF \E n \in 1..Len(s) : s[n] = c
    THEN (CHOOSE n \in 1..Len(s) : s[n] = c /\ \A m \in 1..(n - 1) : s[m] # c) - 1
    ELSE -1

\* s.split(): the maximal runs of characters that are not whitespace
split(s) ==
    LET acc[n \in 0..Len(s)] ==
            IF n = 0 THEN [words |-> <<>>, word |-> <<>>]
            ELSE LET p == acc[n - 1]
                 IN  IF s[n] \in Whitespace
                     THEN IF p.word = <<>> THEN p
                          ELSE [words |-> Append(p.words, p.word), word |-> <<>>]
                     ELSE [p EXCEPT !.word = Append(@, s[n])]
        last == acc[Len(s)]
    IN  IF last.word = <<>> THEN last.words ELSE Append(last.words, last.word)

\* lines[lo:hi]
slice(xs, lo, hi) ==
    LET h == IF hi > Len(xs) THEN Len(xs) ELSE hi
    IN  IF lo >= h THEN <<>> ELSE SubSeq(xs, lo + 1, h)

\* the while loop: a tuple of lines[0:4] for every 4 lines; the call is
\* reached only when len(lines) % 4 == 0
RECURSIVE group_lines(_)
group_lines(lines) ==
    IF lines = <<>> THEN <<>>
    ELSE <<slice(lines, 0, 4)>> \o group_lines(slice(lines, 4, Len(lines)))

---------------------------------------------------------------------------
(* The inputs *)

\* the longest chain of the pool
MaxLen == 6
\* the longest list of chain sets
MaxSets == 2
\* the most words of an input file
MaxWords == 5

\* a chain of n letters a, the m-th of them (1-based) replaced by b; m = 0: none
Marked(n, m) == [j \in 1..n |-> IF j = m THEN "b" ELSE "a"]

\* chains too short for any role, a chain one letter shorter than the longest,
\* and every marked chain of the greatest length
ChainPool ==
    {Marked(0, 0), Marked(4, 0), Marked(MaxLen - 1, 0)}
    \cup {Marked(MaxLen, m) : m \in 0..MaxLen}

\* an order on the pool
ChainKey(c) ==
    Len(c) * (MaxLen + 2)
    + (IF \E j \in 1..Len(c) : c[j] = "b" THEN CHOOSE j \in 1..Len(c) : c[j] = "b" ELSE 0)

\* one chain set for every 4 chains of the pool: process_chain_sets itself tries
\* every order of them
SortedSets(pool) ==
    {s \in pool \X pool \X pool \X pool :
        \A j \in 1..3 : ChainKey(s[j]) <= ChainKey(s[j + 1])}
PoolSets == SortedSets(ChainPool)

\* chain sets of 3, 4 and 5 equal chains
UniformSets ==
    {[j \in 1..n |-> c] : n \in (Roles - 1)..(Roles + 1),
                          c \in {Marked(MaxLen - 1, 2), Marked(MaxLen, 3)}}

\* the lists of at most n elements of S
RECURSIVE ListsUpTo(_, _)
ListsUpTo(S, n) ==
    IF n = 0 THEN {<<>>}
    ELSE LET shorter == ListsUpTo(S, n - 1)
         IN  shorter \cup {Append(l, x) : l \in {m \in shorter : Len(m) = n - 1}, x \in S}

\* the example of the module's docstring
DocumentedSet ==
    << <<"A","Z","A","A","A","A","A","A","A","A","W","A">>,
       <<"B","W","B","B","B","B","B","B","B","X","B","B">>,
       <<"C","Y","C","C","C","C","C","C","C","C","X","C">>,
       <<"D","Z","D","D","D","D","D","D","D","Y","D","D">> >>
DocumentedConfig == <<10, 1, 9, 10, 1, 9>>

\* four times the same marked chain, one letter longer than the pool's
LongSets == {[j \in 1..Roles |-> Marked(MaxLen + 1, m)] : m \in {2, 3}}

ChainSetLists ==
    ListsUpTo(UniformSets, MaxSets)
    \cup {<<s>> : s \in PoolSets \cup LongSets}
    \cup {<<DocumentedSet>>}

\* the orders of the chains of a chain set
Reordered(s, p) == [j \in 1..Len(s) |-> s[p[j]]]
Orders(s) == {Reordered(s, p) : p \in {q \in [1..Len(s) -> 1..Len(s)] :
                                          \A a, b \in 1..Len(s) : a # b => q[a] # q[b]}}

\* a chain set of a smaller pool, followed by the same chains in another order
ReorderedChains ==
    {Marked(MaxLen - 1, 0)} \cup {Marked(MaxLen, m) : m \in 0..(MaxLen \div 2)}
ReorderedLists ==
    UNION {{<<s, t>> : t \in Orders(s)} : s \in SortedSets(ReorderedChains)}

\* the words of an input file, the separator after each word, the end of the file
Words == {<<"A">>, <<"B", "A">>, <<"A", "Q">>}
Endings == {<<>>, <<"Q">>, <<"Q", "\n">>}

RECURSIVE Join(_, _)
Join(ws, seps) ==
    IF ws = <<>> THEN <<>>
    ELSE ws[1] \o <<seps[1]>> \o Join(Tail(ws), Tail(seps))

Texts ==
    {Join(ws, seps) \o e :
        ws \in ListsUpTo(Words, MaxWords),
        seps \in [1..MaxWords -> Whitespace],
        e \in Endings}

---------------------------------------------------------------------------
(* The program *)

Locals ==
    /\ results = <<>>
    /\ i = 1
    /\ chains = <<>>
    /\ chain_combinations = <<>>
    /\ k = 1
    /\ all_configs = <<>>
    /\ configs = <<>>
    /\ subscripts = {}
    /\ molecules = <<>>

\* process_chain_sets is called with a list of chain sets
Init ==
    /\ chain_sets \in ChainSetLists
    /\ text = <<>>
    /\ pc = "for_chains"
    /\ Locals

\* process_chain_sets is called with a chain set and the same chains reordered
InitReordered ==
    /\ chain_sets \in ReorderedLists
    /\ text = <<>>
    /\ pc = "for_chains"
    /\ Locals

\* main is called with the name of an input file
InitFile ==
    /\ text \in Texts
    /\ chain_sets = <<>>
    /\ pc = "main"
    /\ Locals

\* main, lines 59-67: chain_sets = process_input_file(input_file), then
\* process_chain_sets(chain_sets); done() exits the program
ProcessInputFile ==
    /\ pc = "main"
    /\ LET Q == find(text, "Q")
           lines == split(slice(text, 0, Q))
       IN  IF Q = -1 \/ Len(lines) % 4 # 0
           THEN pc' = "exit" /\ UNCHANGED chain_sets
           ELSE pc' = "for_chains" /\ chain_sets' = group_lines(lines)
    /\ UNCHANGED <<results, i, chains, chain_combinations, k, all_configs,
                   configs, subscripts, molecules, text>>

\* process_chain_sets, line 125-126, and generate_molecules, lines 142-146:
\* the next chain set, its 24 orderings
NextChains ==
    /\ pc = "for_chains"
    /\ i <= Len(chain_sets)
    /\ chains' = chain_sets[i]
    /\ LET cs == combinations(range(0, Roles))
       IN  IF \E n \in 1..Len(cs) : reorder_raises(chains', cs[n])
           THEN /\ pc' = "IndexError in generate_molecules"
                /\ UNCHANGED <<chain_combinations, all_configs, k>>
           ELSE /\ pc' = "for_combo"
                /\ chain_combinations' = [n \in 1..Len(cs) |-> reorder(chains', cs[n])]
                /\ all_configs' = <<>>
                /\ k' = 1
    /\ UNCHANGED <<chain_sets, results, i, configs, subscripts, molecules, text>>

\* generate_molecules, lines 147-149: the valid configs of the next ordering
SearchComboOf(combo, call) ==
    /\ subscripts' = call.subscripts
    /\ IF call.raises
       THEN /\ pc' = "IndexError in generate_valid_configs"
            /\ UNCHANGED <<configs, all_configs, k>>
       ELSE /\ configs' = call.configs
            /\ all_configs' = all_configs \o pair_with(combo, call.configs)
            /\ k' = k + 1
            /\ pc' = pc

SearchCombo ==
    /\ pc = "for_combo"
    /\ k <= Len(chain_combinations)
    /\ SearchComboOf(chain_combinations[k], generate_valid_configs_call(chain_combinations[k]))
    /\ UNCHANGED <<chain_sets, results, i, chains, chain_combinations, molecules, text>>

\* generate_molecules, line 150, and process_chain_sets, line 126
ReturnMolecules ==
    /\ pc = "for_combo"
    /\ k > Len(chain_combinations)
    /\ molecules' = all_configs
    /\ pc' = "select"
    /\ UNCHANGED <<chain_sets, results, i, chains, chain_combinations, k,
                   all_configs, configs, subscripts, text>>

\* max(configs, key=calc_config_area): the first config with the largest area
first_with_area(cfgs, top) ==
    LET at_top == {n \in 1..Len(cfgs) : calc_config_area(cfgs[n]) = top}
    IN  cfgs[CHOOSE n \in at_top : \A m \in at_top : n <= m]
max_by_area(cfgs) ==
    first_with_area(cfgs, LargestOf({calc_config_area(cfgs[n]) : n \in 1..Len(cfgs)}))

\* the area of the first molecule instead of the best
best_area_of_first(ms) == IF ms = <<>> THEN 0 ELSE calc_config_area(ms[1][2])

\* the area process_chain_sets, lines 127-132, appends for a list of molecules
best_area(ms) ==
    IF ms = <<>> THEN 0
    ELSE calc_config_area(max_by_area([n \in 1..Len(ms) |-> ms[n][2]]))

\* process_chain_sets, lines 127-132
SelectBest ==
    /\ pc = "select"
    /\ results' = Append(results, best_area(molecules))
    /\ i' = i + 1
    /\ pc' = "for_chains"
    /\ UNCHANGED <<chain_sets, chains, chain_combinations, k, all_configs,
                   configs, subscripts, molecules, text>>

\* process_chain_sets, line 133
Return ==
    /\ pc = "for_chains"
    /\ i > Len(chain_sets)
    /\ pc' = "done"
    /\ UNCHANGED <<chain_sets, results, i, chains, chain_combinations, k,
                   all_configs, configs, subscripts, molecules, text>>

Next == NextChains \/ SearchCombo \/ ReturnMolecules \/ SelectBest \/ Return

Spec == Init /\ [][Next]_vars

NextFile == ProcessInputFile \/ Next

SpecFile == InitFile /\ [][NextFile]_vars

SpecReordered == InitReordered /\ [][Next]_vars

---------------------------------------------------------------------------
(* Properties *)

\* the areas of the configs of a list of molecules, and the largest of a set
AreasOf(ms) == {calc_config_area(ms[n][2]) : n \in 1..Len(ms)}
Maximum(S) == CHOOSE v \in S : \A u \in S : u <= v
LargestOrZero(S) == IF S = {} THEN 0 ELSE Maximum(S)

\* the chain set the loop of process_chain_sets has just finished with
SetDone == pc \in {"for_chains", "done"} /\ i > 1

\* the ordering generate_valid_configs was last called with
ComboDone == pc = "for_combo" /\ k > 1
LastCombo == chain_combinations[k - 1]

\* C1: process_chain_sets returns a list as long as its input whose j-th element
\* is the largest calc_config_area over the molecules generate_molecules returns
\* for the j-th chain set, or 0 when there are none; for the documented chain
\* set the result is [56].
C1_ResultsAreLargestAreas ==
    /\ pc = "done" =>
          /\ Len(results) = Len(chain_sets)
          /\ \A j \in 1..Len(results) :
                results[j] = LargestOrZero(AreasOf(generate_molecules(chain_sets[j])))
          /\ chain_sets = <<DocumentedSet>> => results = <<56>>

\* two chain sets were processed, with different results, the molecules of the
\* second having different areas
C1_Witness ==
    /\ pc = "done"
    /\ Len(results) = 2
    /\ results[1] # results[2]
    /\ Cardinality(AreasOf(molecules)) > 1

\* C2: the area process_chain_sets appends for a set of 4 chains is a natural
\* number, and it is 0 exactly when generate_molecules returned no molecule.
C2_ZeroIffNoMolecules ==
    SetDone /\ Len(chains) = Roles =>
        /\ results[i - 1] \in Nat
        /\ results[i - 1] = 0 <=> molecules = <<>>

\* a set of 4 chains of sufficient length that has no molecule
C2_Witness ==
    /\ SetDone
    /\ Len(chains) = Roles
    /\ \A j \in 1..Roles : Len(chains[j]) = MaxLen
    /\ molecules = <<>>
    /\ results[i - 1] = 0

\* the range constraints and the equalities of the specification, on 0-based
\* indices, for the chains cs = (A, B, C, D)
ClaimRanges(cs, t) ==
    /\ t[1] \in 3..(Len(cs[1]) - 2)
    /\ t[2] \in 1..(Len(cs[2]) - 4)
    /\ t[3] \in (t[2] + 2)..(Len(cs[2]) - 2)
    /\ t[4] \in 3..(Len(cs[3]) - 2)
    /\ t[5] \in (IF t[4] - t[1] + 1 > 1 THEN t[4] - t[1] + 1 ELSE 1)..(t[4] - 3)
    /\ t[6] \in (1 + (t[3] - t[2]))..(Len(cs[4]) - 2)
ClaimEqualities(cs, t) ==
    /\ cs[1][t[1] + 1] = cs[2][t[2] + 1]
    /\ cs[2][t[3] + 1] = cs[3][t[4] + 1]
    /\ cs[3][t[5] + 1] = cs[4][t[6] + 1]
    /\ cs[4][t[6] - (t[3] - t[2]) + 1] = cs[1][t[1] - (t[4] - t[5]) + 1]

\* every 6-tuple that satisfies the range constraints and the equalities is in
\* the set
EveryValidTupleIn(cs, set) ==
    \A Ae \in 3..(Len(cs[1]) - 2) :
    \A Bs \in 1..(Len(cs[2]) - 4) :
    \A Be \in (Bs + 2)..(Len(cs[2]) - 2) :
    \A Cs \in 3..(Len(cs[3]) - 2) :
    \A Ce \in (IF Cs - Ae + 1 > 1 THEN Cs - Ae + 1 ELSE 1)..(Cs - 3) :
    \A Ds \in (1 + (Be - Bs))..(Len(cs[4]) - 2) :
        ClaimEqualities(cs, <<Ae, Bs, Be, Cs, Ce, Ds>>)
            => <<Ae, Bs, Be, Cs, Ce, Ds>> \in set

Bijections == {p \in [1..4 -> 0..3] : \A a, b \in 1..4 : a # b => p[a] # p[b]}

\* C4: combinations(range(4)) is 24 distinct tuples of length 4, each a
\* bijection of {0,1,2,3}, together all of them, and generate_molecules tries
\* the 24 orderings they give by position, whether or not chains are equal.
C4_AllOrderings ==
    LET c == combinations(range(0, 4))
    IN  /\ Len(c) = 24
        /\ \A n \in 1..Len(c) : c[n].type = "tuple" /\ c[n].items \in Bijections
        /\ \A n, m \in 1..Len(c) : n # m => c[n] # c[m]
        /\ {c[n].items : n \in 1..Len(c)} = Bijections
        /\ pc = "for_combo" =>
              /\ Len(chain_combinations) = 24
              /\ \A n \in 1..24 :
                    chain_combinations[n] = [j \in 1..4 |-> chains[c[n].items[j] + 1]]
              /\ \A p \in Bijections :
                    \E n \in 1..24 :
                        chain_combinations[n] = [j \in 1..4 |-> chains[p[j] + 1]]

\* the orderings of a set of 4 chains, two of them equal, have been built
C4_Witness ==
    /\ pc = "for_combo"
    /\ Len(chains) = 4
    /\ chains[1] = chains[2]
    /\ chains[2] # chains[3]
    /\ k > Len(chain_combinations)

\* C5: process_chain_sets returns the same area for a chain set and for the
\* same 4 chains in any other order.
C5_OrderOfChainsIrrelevant ==
    pc = "done" =>
        \A a, b \in 1..Len(chain_sets) :
            Len(chain_sets[a]) = Roles /\ chain_sets[b] \in Orders(chain_sets[a])
                => results[a] = results[b]

\* 4 different chains in two different orders, only one of which is itself an
\* ordering with valid configs
C5_Witness ==
    /\ pc = "done"
    /\ Len(chain_sets) = 2
    /\ Cardinality(Elems(chain_sets[1])) = Roles
    /\ generate_valid_configs(chain_sets[1]) = <<>>
    /\ generate_valid_configs(chain_sets[2]) # <<>>
    /\ results[1] > 0

\* C6: a chain set that does not hold exactly 4 chains makes process_chain_sets
\* raise an error: no area is ever appended for it.
C6_WrongSizeRaises ==
    \A j \in 1..Len(results) : Len(chain_sets[j]) = Roles

\* C7: generate_valid_configs never raises and evaluates no subscript outside
\* [0, len(chain) - 1]; when a chain is too short for its range the list is
\* empty, and process_chain_sets yields 0 for the set.
C7_SearchStaysInsideChains ==
    /\ pc # "IndexError in generate_valid_configs"
    /\ \A r \in subscripts : 0 <= r[2] /\ r[2] <= r[1] - 1
    /\ ComboDone /\ (\E j \in 1..Roles : Len(LastCombo[j]) < 5) => configs = <<>>
    /\ SetDone /\ Len(chains) = Roles /\ (\E j \in 1..Roles : Len(chains[j]) < 5)
          => results[i - 1] = 0

\* a search of 4 long chains that evaluated the derived subscripts Ds-(Be-Bs)
\* and Ae-(Cs-Ce), the least of them at index 1
C7_Witness ==
    /\ ComboDone
    /\ \A j \in 1..Roles : Len(LastCombo[j]) = MaxLen + 1
    /\ configs # <<>>
    /\ \E n \in 1..Len(configs) :
          /\ configs[n][6] - (configs[n][3] - configs[n][2]) = 1
          /\ configs[n][1] - (configs[n][4] - configs[n][5]) = 1
    /\ <<MaxLen + 1, 1>> \in subscripts

Transposed(m) ==
    << <<m[1][4], m[1][3], m[1][2], m[1][1]>>,
       <<m[2][6], m[2][5], m[2][4], m[2][3], m[2][2], m[2][1]>> >>
TransposeClosed(ms, all) ==
    \A n \in 1..Len(ms) :
        ms[n][2][3] - ms[n][2][2] >= 3 =>
            /\ Transposed(ms[n]) \in all
            /\ calc_config_area(Transposed(ms[n])[2]) = calc_config_area(ms[n][2])

\* C9: for every molecule ((A,B,C,D), (Ae,Bs,Be,Cs,Ce,Ds)) with Be-Bs >= 3 that
\* generate_molecules returns, it also returns ((D,C,B,A), (Ds,Ce,Cs,Be,Bs,Ae)),
\* which has the same area.
C9_TransposeSymmetry ==
    pc = "select" => TransposeClosed(molecules, Elems(molecules))

\* molecules of 4 different chains, one with Be-Bs >= 3 and a width other than
\* its height
C9_Witness ==
    /\ pc = "select"
    /\ Cardinality(Elems(chains)) = Roles
    /\ \E n \in 1..Len(molecules) :
          /\ molecules[n][2][3] - molecules[n][2][2] >= 3
          /\ molecules[n][2][4] - molecules[n][2][5] # molecules[n][2][3] - molecules[n][2][2]

\* the terminating line of a file: the first line that is Q alone
IsQLine(t, n) ==
    /\ t[n] = "Q"
    /\ n = 1 \/ t[n - 1] = "\n"
    /\ n = Len(t) \/ t[n + 1] = "\n"
HasQLine(t) == \E n \in 1..Len(t) : IsQLine(t, n)
QLine(t) == CHOOSE n \in 1..Len(t) : IsQLine(t, n) /\ \A m \in 1..(n - 1) : ~IsQLine(t, m)
WordsBeforeQLine(t) == split(SubSeq(t, 1, QLine(t) - 1))
GroupsOfFour(ws) == [g \in 1..(Len(ws) \div 4) |-> SubSeq(ws, 4 * g - 3, 4 * g)]

\* C10: process_input_file returns, in file order, one 4-tuple for every 4
\* words of the file before its terminating Q line, whatever their letters.
C10_EveryGroupBeforeTheQLine ==
    pc # "main" /\ HasQLine(text) /\ Len(WordsBeforeQLine(text)) % 4 = 0 =>
        /\ pc # "exit"
        /\ chain_sets = GroupsOfFour(WordsBeforeQLine(text))

====
